---- MODULE Spec2Model ----
(***************************************************************************)
(* A model of subtp/__init__.py: the registry of model classes, the list   *)
(* of subscriber callbacks, the snapshot dictionary keyed by id(instance), *)
(* and the three Django signal receivers post_init_callback,               *)
(* post_save_callback and post_delete_callback.                            *)
(*                                                                         *)
(* Python values are represented as follows.                               *)
(*   - a dict is a function whose DOMAIN is its key set;                   *)
(*   - an optional value (None or a dict) is a sequence of length 0 or 1;  *)
(*   - a list is a sequence;                                               *)
(*   - an exception is recorded by its class name in last.raised.          *)
(***************************************************************************)
EXTENDS Integers, Sequences, FiniteSets, TLC

\* ------------------------------------------------------------------ bounds
\* longest _registered_models list explored
MaxReg == 2
\* longest _callbacks list explored
MaxCallbacks == 2

\* ------------------------------------------------------- sample universes
\* model classes (the signal's sender)
Types == {"Order", "Note"}
\* the callables handed to add_callback
CallbackIds == {"c1", "c2"}
\* attribute values, compared by ==
Vals == {"new", "paid"}
\* memory addresses, the values of id(instance)
Addrs == {1}
\* names that can be keys of instance.__dict__ besides "_state"
AttrNames == {"status", "total"}

\* [field.name for field in instance._meta.fields], per model class
Fields(cls) == IF cls = "Order" THEN {"status", "total"} ELSE {"status"}

\* instance.pk: the primary key the ORM gives the instances of a model class
PkOf(cls) == IF cls = "Order" THEN "order-7" ELSE "note-3"

\* the empty dict
EmptyDict == [k \in {} |-> "new"]

\* every dict over a subset of the keys ks
Dicts(ks) == UNION {[s -> Vals] : s \in SUBSET ks}

\* instance.__dict__ of a model instance: Django always stores "_state"
\* there, next to whichever attributes are loaded or assigned
InstanceDicts ==
    {[k \in DOMAIN d \cup {"_state"} |->
         IF k = "_state" THEN "ModelState" ELSE d[k]] : d \in Dicts(AttrNames)}

\* heap cell of a free address
Free == [live |-> FALSE]

\* the values of id(instance) under which snapshots are found when a
\* destructor runs
Handles == {1, 2, 3}

\* the snapshot dicts a destructor can find: any of the handles may have an
\* entry, whatever its content
SnapshotStores == UNION {[s -> Dicts({"status"})] : s \in SUBSET Handles}

\* the threads that can run a receiver
Threads == {"t1", "t2"}

\* no thread is inside post_save_callback
NoThreads ==
    [t \in Threads |-> [pc |-> "idle", addr |-> 0, attributes |-> EmptyDict]]

\* nothing published yet
NoBook == [pub |-> EmptyDict, view |-> EmptyDict, sourced |-> FALSE,
           spurious |-> FALSE, lost |-> FALSE, overlap |-> FALSE]

VARIABLES
    _registered_models,  \* list of model classes
    _callbacks,          \* list of callables
    _snapshots,          \* dict: id(instance) -> attributes
    heap,                \* address -> live instance (its class, pk and __dict__) or Free
    weakrefs,            \* addresses that have a live weakref object carrying destructor
    observed,            \* addresses whose live instance went through on-construct while registered
    own,                 \* addresses whose stored snapshot was written from the instance living there
    threads,             \* per thread: where it is in post_save_callback, and its local `attributes`
    book,                \* bookkeeping on what has been published about the instance
    last                 \* the most recent call: its arguments, what it raised, what it delivered

vars == <<_registered_models, _callbacks, _snapshots, heap, weakrefs, observed,
          own, threads, book, last>>

\* ---------------------------------------------------------------- helpers
\* `x in lst`
In(x, lst) == \E i \in 1..Len(lst) : lst[i] = x

\* lst.remove(x): the list without the first occurrence of x
ListRemove(lst, x) ==
    LET i == CHOOSE n \in 1..Len(lst) :
                 lst[n] = x /\ \A m \in 1..(n - 1) : lst[m] # x
    IN  SubSeq(lst, 1, i - 1) \o SubSeq(lst, i + 1, Len(lst))

\* d[k] = v
DictSet(d, k, v) == [x \in DOMAIN d \cup {k} |-> IF x = k THEN v ELSE d[x]]

\* del d[k]
DictDel(d, k) == [x \in DOMAIN d \ {k} |-> d[x]]

\* d.get(k, None)
DictGet(d, k) == IF k \in DOMAIN d THEN <<d[k]>> ELSE <<>>

\* truth value of an optional dict: None and {} are both false
Truthy(opt) == Len(opt) > 0 /\ DOMAIN opt[1] # {}

\* the record of one call, kept in `last`
\* (arg is the model class, the callable for add_callback, or what the
\* destructor logged)
Call(op, addr, arg, created, raised, published, deliv) ==
    [op |-> op, addr |-> addr, arg |-> arg, created |-> created,
     raised |-> raised, published |-> published, deliv |-> deliv]

\* a call that neither raises nor publishes
Quiet(op, addr, arg) == Call(op, addr, arg, FALSE, "", <<>>, <<>>)

\* a guard that lets every sender through
NotRegistered_Never(sender) == FALSE

\* the guard of the three receivers: `sender not in _registered_models`
NotRegistered(sender) == ~In(sender, _registered_models)

\* ---------------------------------------------------------- get_attributes
\* attributes read without the whitelist
get_attributes_all(instance) == instance.dict

get_attributes(instance) ==
    LET whitelist == Fields(instance.cls)
    IN  [key \in {k \in DOMAIN instance.dict : k \in whitelist} |->
            instance.dict[key]]

\* ----------------------------------------------------------------- publish
\* a payload that never gets its data
Payload_NoData(pk, attributes) == [id |-> pk]

\* the payload dict built by publish
Payload(pk, attributes) ==
    IF Truthy(attributes)
    THEN [id |-> pk, data |-> attributes[1]]
    ELSE [id |-> pk]

\* a publish that walks the callback list from its end
publish_reversed(cbs, model_class, event, pk, attributes, r) ==
    LET payload == Payload(pk, attributes)
        n == IF r = 0 THEN Len(cbs) ELSE r
    IN  [published |-> <<[model_class |-> model_class, event |-> event,
                          payload |-> payload]>>,
         deliv |-> [i \in 1..n |->
                       [callback |-> cbs[Len(cbs) + 1 - i],
                        model_class |-> model_class,
                        event |-> event, payload |-> payload]],
         raised |-> IF r = 0 THEN "" ELSE "CallbackError"]

\* publish(model_class, event, pk, attributes) with the callbacks cbs, where
\* r is the position of the first callback that raises (0: none raises).
\* The loop calls the callbacks in list order and stops at the one that raises.
publish(cbs, model_class, event, pk, attributes, r) ==
    LET payload == Payload(pk, attributes)
        n == IF r = 0 THEN Len(cbs) ELSE r
    IN  [published |-> <<[model_class |-> model_class, event |-> event,
                          payload |-> payload]>>,
         deliv |-> [i \in 1..n |->
                       [callback |-> cbs[i], model_class |-> model_class,
                        event |-> event, payload |-> payload]],
         raised |-> IF r = 0 THEN "" ELSE "CallbackError"]

\* ------------------------------------------------------ post_init_callback
\* `del d[k]` as a statement: KeyError when d has no key k
Del(d, k) ==
    IF k \in DOMAIN d
    THEN [snaps |-> DictDel(d, k), raised |-> "", deleted |-> TRUE]
    ELSE [snaps |-> d, raised |-> "KeyError", deleted |-> FALSE]

\* a destructor that deletes without looking whether the entry is there
destructor_unguarded(snaps, a) == Del(snaps, a)

\* the closure `destructor` of post_init_callback, for the instance at a:
\* the snapshot dict it leaves, what it raises, and whether it deleted
destructor(snaps, a) ==
    IF a \in DOMAIN snaps
    THEN Del(snaps, a)
    ELSE [snaps |-> snaps, raised |-> "", deleted |-> FALSE]

\* weakref.ref(instance, destructor) written as an expression statement: the
\* weakref object it creates is bound to no name and dies when the statement
\* ends, and a callback belongs to its weakref object, so it dies with it
weakref_ref(refs, a) == (refs \cup {a}) \ {a}

\* ------------------------------------------------------ post_save_callback
\* a delta that keeps every current attribute
Delta_AllKeys(attributes, previous) == attributes

\* a delta that carries the snapshot's value of each changed key
Delta_OldValues(attributes, previous) ==
    [key \in {k \in DOMAIN attributes : attributes[k] # previous[k]} |->
        previous[key]]

\* the dict comprehension that builds delta; previous[key] raises KeyError
\* for a key of attributes that previous lacks
Delta(attributes, previous) ==
    [key \in {k \in DOMAIN attributes : attributes[k] # previous[k]} |->
        attributes[key]]

\* a post_save_callback that stores the new snapshot before it looks up the
\* previous one's keys, so that a call that raises has already written
post_save_store_first(sender, a, created, r) ==
    LET instance == heap[a]
        pk == instance.pk
        attributes == get_attributes(instance)
        none == [published |-> <<>>, deliv |-> <<>>, raised |-> ""]
        stored == DictSet(_snapshots, a, attributes)
    IN  IF NotRegistered(sender)
        THEN [out |-> none, snaps |-> _snapshots, wrote |-> FALSE]
        ELSE IF created
        THEN LET p == publish(_callbacks, sender, "create", pk, <<attributes>>, r)
             IN  IF p.raised # ""
                 THEN [out |-> p, snaps |-> _snapshots, wrote |-> FALSE]
                 ELSE [out |-> p, snaps |-> stored, wrote |-> TRUE]
        ELSE LET previous == DictGet(_snapshots, a)
             IN  IF ~Truthy(previous)
                 THEN [out |-> [none EXCEPT !.raised = "KeyError"],
                       snaps |-> stored, wrote |-> TRUE]
                 ELSE IF \E key \in DOMAIN attributes : key \notin DOMAIN previous[1]
                 THEN [out |-> [none EXCEPT !.raised = "KeyError"],
                       snaps |-> stored, wrote |-> TRUE]
                 ELSE LET delta == Delta(attributes, previous[1])
                          p == publish(_callbacks, sender, "update", pk, <<delta>>, r)
                      IN  IF p.raised # ""
                          THEN [out |-> p, snaps |-> _snapshots, wrote |-> FALSE]
                          ELSE [out |-> p, snaps |-> stored, wrote |-> TRUE]

\* a last statement that stores nothing
SetSnapshot_Skip(snaps, a, attributes) == snaps

\* the last statement of post_save_callback:
\* _snapshots[id(instance)] = attributes
SetSnapshot(snaps, a, attributes) == DictSet(snaps, a, attributes)

\* what post_save_callback does: the exception it raises, the publish call
\* it makes, the deliveries, and the snapshot dict it leaves behind
post_save_callback(sender, a, created, r) ==
    LET instance == heap[a]
        pk == instance.pk
        attributes == get_attributes(instance)
        none == [published |-> <<>>, deliv |-> <<>>, raised |-> ""]
    IN  IF NotRegistered(sender)
        THEN [out |-> none, snaps |-> _snapshots, wrote |-> FALSE]
        ELSE IF created
        THEN LET p == publish(_callbacks, sender, "create", pk, <<attributes>>, r)
             IN  IF p.raised # ""
                 THEN [out |-> p, snaps |-> _snapshots, wrote |-> FALSE]
                 ELSE [out |-> p, snaps |-> DictSet(_snapshots, a, attributes),
                       wrote |-> TRUE]
        ELSE LET previous == DictGet(_snapshots, a)
             IN  IF ~Truthy(previous)
                 THEN [out |-> [none EXCEPT !.raised = "KeyError"],
                       snaps |-> _snapshots, wrote |-> FALSE]
                 ELSE IF \E key \in DOMAIN attributes : key \notin DOMAIN previous[1]
                 THEN [out |-> [none EXCEPT !.raised = "KeyError"],
                       snaps |-> _snapshots, wrote |-> FALSE]
                 ELSE LET delta == Delta(attributes, previous[1])
                          p == publish(_callbacks, sender, "update", pk, <<delta>>, r)
                      IN  IF p.raised # ""
                          THEN [out |-> p, snaps |-> _snapshots, wrote |-> FALSE]
                          ELSE [out |-> p,
                                snaps |-> DictSet(_snapshots, a, attributes),
                                wrote |-> TRUE]

\* ---------------------------------------------------- post_delete_callback
\* a delete hook that passes the instance's attributes on to publish
post_delete_with_attributes(sender, a, r) ==
    IF NotRegistered(sender)
    THEN [published |-> <<>>, deliv |-> <<>>, raised |-> ""]
    ELSE publish(_callbacks, sender, "delete", heap[a].pk,
                 <<get_attributes(heap[a])>>, r)

post_delete_callback(sender, a, r) ==
    IF NotRegistered(sender)
    THEN [published |-> <<>>, deliv |-> <<>>, raised |-> ""]
    ELSE publish(_callbacks, sender, "delete", heap[a].pk, <<>>, r)

\* ------------------------------------------------------------------- Init
Init ==
    /\ _registered_models = <<>>
    /\ _callbacks = <<>>
    /\ _snapshots = EmptyDict
    /\ heap = [a \in Addrs |-> Free]
    /\ weakrefs = {}
    /\ observed = {}
    /\ own = {}
    /\ threads = NoThreads
    /\ book = NoBook
    /\ last = Quiet("import", 0, "")

\* ---------------------------------------------------------------- actions
\* register(model_class)
Register(cls) ==
    /\ Len(_registered_models) < MaxReg
    /\ _registered_models' = Append(_registered_models, cls)
    /\ last' = Quiet("register", 0, cls)
    /\ UNCHANGED <<_callbacks, _snapshots, heap, weakrefs, observed, own>>
    /\ UNCHANGED <<threads, book>>

\* unregister(model_class): list.remove raises ValueError for a non-member
Unregister(cls) ==
    /\ IF In(cls, _registered_models)
       THEN /\ _registered_models' = ListRemove(_registered_models, cls)
            /\ last' = Quiet("unregister", 0, cls)
       ELSE /\ _registered_models' = _registered_models
            /\ last' = Call("unregister", 0, cls, FALSE, "ValueError", <<>>, <<>>)
    /\ UNCHANGED <<_callbacks, _snapshots, heap, weakrefs, observed, own>>
    /\ UNCHANGED <<threads, book>>

\* add_callback(callback)
AddCallback(cb) ==
    /\ Len(_callbacks) < MaxCallbacks
    /\ _callbacks' = Append(_callbacks, cb)
    /\ last' = Quiet("add_callback", 0, cb)
    /\ UNCHANGED <<_registered_models, _snapshots, heap, weakrefs, observed, own>>
    /\ UNCHANGED <<threads, book>>

\* A model instance is constructed at the free address a; Model.__init__
\* ends by sending post_init, which runs post_init_callback(sender, instance).
Construct(a, cls, d) ==
    /\ ~heap[a].live
    /\ heap' = [heap EXCEPT ![a] = [live |-> TRUE, cls |-> cls,
                                      pk |-> PkOf(cls), dict |-> d]]
    /\ IF NotRegistered(cls)
       THEN UNCHANGED <<_snapshots, weakrefs, observed, own>>
       ELSE /\ weakrefs' = weakref_ref(weakrefs, a)
            /\ _snapshots' = DictSet(_snapshots, a, get_attributes(heap'[a]))
            /\ observed' = observed \cup {a}
            /\ own' = own \cup {a}
    /\ last' = Quiet("post_init", a, cls)
    /\ UNCHANGED <<_registered_models, _callbacks, threads, book>>

\* the application assigns instance.<k> = v
SetAttr(a, k, v) ==
    /\ heap[a].live
    /\ heap' = [heap EXCEPT ![a].dict = DictSet(@, k, v)]
    /\ last' = Quiet("setattr", a, heap[a].cls)
    /\ UNCHANGED <<_registered_models, _callbacks, _snapshots, weakrefs, observed, own>>
    /\ UNCHANGED <<threads, book>>

\* Model.save() sends post_save: post_save_callback(sender, instance, created)
PostSave(a, created, r) ==
    /\ heap[a].live
    /\ LET res == post_save_callback(heap[a].cls, a, created, r)
       IN  /\ _snapshots' = res.snaps
           /\ own' = IF res.wrote THEN own \cup {a} ELSE own
           /\ last' = Call("post_save", a, heap[a].cls, created,
                           res.out.raised, res.out.published, res.out.deliv)
    /\ UNCHANGED <<_registered_models, _callbacks, heap, weakrefs, observed>>
    /\ UNCHANGED <<threads, book>>

\* Model.delete() sends post_delete: post_delete_callback(sender, instance)
PostDelete(a, r) ==
    /\ heap[a].live
    /\ LET res == post_delete_callback(heap[a].cls, a, r)
       IN  last' = Call("post_delete", a, heap[a].cls, FALSE,
                        res.raised, res.published, res.deliv)
    /\ UNCHANGED <<_registered_models, _callbacks, _snapshots, heap, weakrefs, observed, own>>
    /\ UNCHANGED <<threads, book>>

\* The instance at a becomes unreachable and the host reclaims it; the
\* callbacks of the weakref objects still alive for it run, and the address
\* becomes free for the next allocation.
Reclaim(a) ==
    /\ heap[a].live
    /\ heap' = [heap EXCEPT ![a] = Free]
    /\ IF a \in weakrefs
       THEN /\ _snapshots' = destructor(_snapshots, a).snaps
            /\ weakrefs' = weakrefs \ {a}
       ELSE UNCHANGED <<_snapshots, weakrefs>>
    /\ observed' = observed \ {a}
    /\ own' = own \ {a}
    /\ last' = Quiet("reclaim", a, heap[a].cls)
    /\ UNCHANGED <<_registered_models, _callbacks, threads, book>>

Next ==
    \/ \E cls \in Types : Register(cls)
    \/ \E cls \in Types : Unregister(cls)
    \/ \E cb \in CallbackIds : AddCallback(cb)
    \/ \E a \in Addrs, cls \in Types, d \in InstanceDicts : Construct(a, cls, d)
    \/ \E a \in Addrs, k \in AttrNames, v \in Vals : SetAttr(a, k, v)
    \/ \E a \in Addrs, created \in BOOLEAN, r \in 0..Len(_callbacks) :
           PostSave(a, created, r)
    \/ \E a \in Addrs, r \in 0..Len(_callbacks) : PostDelete(a, r)
    \/ \E a \in Addrs : Reclaim(a)

Spec == Init /\ [][Next]_vars

\* ------------------------------------------- the destructor taken alone
\* Any snapshot dict, with no call made yet.
InitDestructor ==
    /\ _registered_models = <<>>
    /\ _callbacks = <<>>
    /\ _snapshots \in SnapshotStores
    /\ heap = [a \in Addrs |-> Free]
    /\ weakrefs = {}
    /\ observed = {}
    /\ own = {}
    /\ threads = NoThreads
    /\ book = NoBook
    /\ last = Quiet("import", 0, "")

\* destructor(reference) runs for the instance whose id is a
RunDestructor(a) ==
    /\ LET res == destructor(_snapshots, a)
       IN  /\ _snapshots' = res.snaps
           /\ last' = Call("destructor", a,
                           IF res.deleted THEN "deleted" ELSE "",
                           FALSE, res.raised, <<>>, <<>>)
    /\ UNCHANGED <<_registered_models, _callbacks, heap, weakrefs, observed, own>>
    /\ UNCHANGED <<threads, book>>

NextDestructor == \E a \in Handles : RunDestructor(a)

SpecDestructor == InitDestructor /\ [][NextDestructor]_vars

\* ------------------------------- post_save_callback run by two threads
\* what a subscriber that keeps the attributes of the instance holds after
\* an event: the data of a create event, or what it held overlaid with the
\* data of an update event
Overlay(view, event, data) ==
    IF event = "create"
    THEN data
    ELSE [k \in DOMAIN view \cup DOMAIN data |->
             IF k \in DOMAIN data THEN data[k] ELSE view[k]]

\* Both classes are registered and two callbacks added; one instance lives
\* at the address. It was constructed either after its class was registered
\* (post_init_callback stored its snapshot) or before (no snapshot).
InitPersist ==
    /\ _registered_models = <<"Order", "Note">>
    /\ _callbacks = <<"c1", "c2">>
    /\ weakrefs = {}
    /\ threads = NoThreads
    /\ \E cls \in Types, d \in InstanceDicts, seen \in BOOLEAN :
          LET instance == [live |-> TRUE, cls |-> cls, pk |-> PkOf(cls),
                           dict |-> d]
          IN  /\ heap = [a \in Addrs |-> instance]
              /\ _snapshots = IF seen
                              THEN [a \in Addrs |-> get_attributes(instance)]
                              ELSE EmptyDict
              /\ observed = IF seen THEN Addrs ELSE {}
              /\ own = IF seen THEN Addrs ELSE {}
              /\ book = [NoBook EXCEPT !.pub = get_attributes(instance)]
              /\ last = Quiet("post_init", 1, cls)

\* the application assigns a new value to an attribute the instance has
Assign(a, k, v) ==
    /\ heap[a].live
    /\ k \in DOMAIN heap[a].dict
    /\ SetAttr(a, k, v)

\* Thread t runs post_save_callback up to and including its call of publish:
\* it reads the attributes and the snapshot, and publishes. No callback
\* raises. The thread keeps its local `attributes` for the last statement.
SaveBegin(t, a, created) ==
    /\ heap[a].live
    /\ threads[t].pc = "idle"
    /\ LET res == post_save_callback(heap[a].cls, a, created, 0)
           attributes == get_attributes(heap[a])
           published == res.out.published # <<>>
           payload == res.out.published[1].payload
           data == IF "data" \in DOMAIN payload THEN payload.data ELSE EmptyDict
       IN  /\ last' = Call("post_save", a, heap[a].cls, created,
                           res.out.raised, res.out.published, res.out.deliv)
           /\ threads' = [threads EXCEPT ![t] =
                             IF res.wrote
                             THEN [pc |-> "store", addr |-> a,
                                   attributes |-> attributes]
                             ELSE @]
           /\ book' =
                 [pub |-> IF published THEN attributes ELSE book.pub,
                  view |-> IF published /\ (created \/ book.sourced)
                           THEN Overlay(book.view,
                                        res.out.published[1].event, data)
                           ELSE book.view,
                  sourced |-> book.sourced \/ (published /\ created),
                  spurious |-> \/ book.spurious
                               \/ /\ published /\ ~created
                                  /\ \E k \in DOMAIN data :
                                        k \in DOMAIN book.pub
                                           /\ book.pub[k] = data[k],
                  lost |-> \/ book.lost
                           \/ /\ published /\ ~created
                              /\ \E k \in DOMAIN attributes \ DOMAIN data :
                                    k \notin DOMAIN book.pub
                                       \/ book.pub[k] # attributes[k],
                  overlap |-> \/ book.overlap
                              \/ \E u \in Threads \ {t} :
                                    threads[u].pc = "store"]
    /\ UNCHANGED <<_registered_models, _callbacks, _snapshots, heap>>
    /\ UNCHANGED <<weakrefs, observed, own>>

\* Thread t runs the last statement of post_save_callback with the
\* `attributes` it read.
SaveEnd(t) ==
    /\ threads[t].pc = "store"
    /\ _snapshots' = SetSnapshot(_snapshots, threads[t].addr,
                                 threads[t].attributes)
    /\ own' = own \cup {threads[t].addr}
    /\ threads' = [threads EXCEPT ![t] = NoThreads[t]]
    /\ last' = Quiet("post_save_end", threads[t].addr,
                     heap[threads[t].addr].cls)
    /\ UNCHANGED <<_registered_models, _callbacks, heap, weakrefs, observed>>
    /\ UNCHANGED book

NextPersist ==
    \/ \E a \in Addrs, k \in AttrNames, v \in Vals : Assign(a, k, v)
    \/ \E t \in Threads, a \in Addrs, created \in BOOLEAN :
           SaveBegin(t, a, created)
    \/ \E t \in Threads : SaveEnd(t)

SpecPersist == InitPersist /\ [][NextPersist]_vars

\* ------------------------------------- callbacks that write to the payload
\* what a callback does with the payload dict it is handed: nothing, an
\* assignment payload["id"] = ..., or an assignment
\* payload["data"]["status"] = ... when the payload has data
Mutations == {"none", "payload", "data"}

\* the content of the payload dict after a callback did m with it
Mutate(payload, m) ==
    IF m = "payload"
    THEN [payload EXCEPT !.id = "tampered"]
    ELSE IF m = "data" /\ "data" \in DOMAIN payload
    THEN [payload EXCEPT !.data = DictSet(@, "status", "tampered")]
    ELSE payload

\* the content of the one payload dict of a publish call at the time the
\* loop calls the i-th callback, where muts[j] is what the j-th callback does
RECURSIVE PayloadAt(_, _, _)
PayloadAt(payload, muts, i) ==
    IF i = 1
    THEN payload
    ELSE Mutate(PayloadAt(payload, muts, i - 1), muts[i - 1])

\* publish with callbacks that write: every callback is handed the same
\* payload dict, and payload["data"] is the dict passed as `attributes`, so
\* the result also gives the content of that dict when publish returns
publish_shared(cbs, model_class, event, pk, attributes, muts) ==
    LET payload == Payload(pk, attributes)
        n == Len(cbs)
    IN  [published |-> <<[model_class |-> model_class, event |-> event,
                          payload |-> payload]>>,
         deliv |-> [i \in 1..n |->
                       [callback |-> cbs[i], model_class |-> model_class,
                        event |-> event,
                        payload |-> PayloadAt(payload, muts, i)]],
         raised |-> "",
         attributes |-> IF Truthy(attributes)
                        THEN <<PayloadAt(payload, muts, n + 1).data>>
                        ELSE attributes]

\* post_save_callback with callbacks that write: for a create event the dict
\* `attributes` is the payload's data and is the dict the last statement
\* stores; for an update event the payload's data is the dict `delta`
post_save_shared(sender, a, created, muts) ==
    LET instance == heap[a]
        pk == instance.pk
        attributes == get_attributes(instance)
        none == [published |-> <<>>, deliv |-> <<>>, raised |-> ""]
    IN  IF NotRegistered(sender)
        THEN [out |-> none, snaps |-> _snapshots]
        ELSE IF created
        THEN LET p == publish_shared(_callbacks, sender, "create", pk,
                                     <<attributes>>, muts)
             IN  [out |-> p,
                  snaps |-> SetSnapshot(_snapshots, a, p.attributes[1])]
        ELSE LET previous == DictGet(_snapshots, a)
             IN  IF ~Truthy(previous)
                 THEN [out |-> [none EXCEPT !.raised = "KeyError"],
                       snaps |-> _snapshots]
                 ELSE IF \E key \in DOMAIN attributes : key \notin DOMAIN previous[1]
                 THEN [out |-> [none EXCEPT !.raised = "KeyError"],
                       snaps |-> _snapshots]
                 ELSE LET delta == Delta(attributes, previous[1])
                          p == publish_shared(_callbacks, sender, "update", pk,
                                              <<delta>>, muts)
                      IN  [out |-> p,
                           snaps |-> SetSnapshot(_snapshots, a, attributes)]

\* Model.save() with callbacks that write to the payload
SaveShared(a, created, muts) ==
    /\ heap[a].live
    /\ LET res == post_save_shared(heap[a].cls, a, created, muts)
       IN  /\ _snapshots' = res.snaps
           /\ last' = Call("post_save", a, heap[a].cls, created,
                           res.out.raised, res.out.published, res.out.deliv)
    /\ UNCHANGED <<_registered_models, _callbacks, heap, weakrefs, observed, own>>
    /\ UNCHANGED <<threads, book>>

\* Model.delete() with callbacks that write to the payload
DeleteShared(a, muts) ==
    /\ heap[a].live
    /\ LET res == IF NotRegistered(heap[a].cls)
                  THEN [published |-> <<>>, deliv |-> <<>>, raised |-> ""]
                  ELSE publish_shared(_callbacks, heap[a].cls, "delete",
                                      heap[a].pk, <<>>, muts)
       IN  last' = Call("post_delete", a, heap[a].cls, FALSE,
                        res.raised, res.published, res.deliv)
    /\ UNCHANGED <<_registered_models, _callbacks, _snapshots, heap>>
    /\ UNCHANGED <<weakrefs, observed, own, threads, book>>

NextAlias ==
    \/ \E a \in Addrs, k \in AttrNames, v \in Vals : Assign(a, k, v)
    \/ \E a \in Addrs, created \in BOOLEAN,
          muts \in [1..Len(_callbacks) -> Mutations] :
           SaveShared(a, created, muts)
    \/ \E a \in Addrs, muts \in [1..Len(_callbacks) -> Mutations] :
           DeleteShared(a, muts)

SpecAlias == InitPersist /\ [][NextAlias]_vars

\* ================================================================ claims
\* What the properties below read off a state, written without the
\* operators of the model above.

\* the classes that occur in _registered_models
RegisteredTypes == {_registered_models[i] : i \in 1..Len(_registered_models)}

\* the attributes of the live instance at a that are fields of its class
Whitelisted(a) ==
    LET d == heap[a].dict
    IN  [k \in (DOMAIN d) \cap Fields(heap[a].cls) |-> d[k]]

\* the data mapping a payload carries, empty when it has no data field
DataOf(payload) == IF "data" \in DOMAIN payload THEN payload.data ELSE EmptyDict

\* the payload with identifier pk and, when data is not empty, the data
PayloadWith(pk, data) ==
    IF DOMAIN data = {} THEN [id |-> pk] ELSE [id |-> pk, data |-> data]

\* the i-th delivery of call went to the i-th subscriber of cbs and carried
\* (cls, event, payload)
DeliveryIs(call, i, cbs, cls, event, payload) ==
    /\ call.deliv[i].callback = cbs[i]
    /\ call.deliv[i].model_class = cls
    /\ call.deliv[i].event = event
    /\ call.deliv[i].payload = payload

\* call delivered (cls, event, payload) once to every subscriber of cbs, in
\* list order, and raised nothing
DeliveredToAll(call, cbs, cls, event, payload) ==
    /\ call.raised = ""
    /\ Len(call.deliv) = Len(cbs)
    /\ \A i \in 1..Len(cbs) : DeliveryIs(call, i, cbs, cls, event, payload)

\* call delivered (cls, event, payload) once to every subscriber of cbs in
\* list order up to and including the first one that raised, to all of them
\* when none raised
DeliveredUntilRaise(call, cbs, cls, event, payload) ==
    /\ call.raised \in {"", "CallbackError"}
    /\ Len(call.deliv) <= Len(cbs)
    /\ call.raised = "" => Len(call.deliv) = Len(cbs)
    /\ call.raised = "CallbackError" => Len(call.deliv) >= 1
    /\ \A i \in 1..Len(call.deliv) : DeliveryIs(call, i, cbs, cls, event, payload)

\* the step is post_save_callback on the instance at a, of a registered class
SaveStep(a, created) ==
    /\ last'.op = "post_save"
    /\ last'.addr = a
    /\ last'.created = created
    /\ heap[a].cls \in RegisteredTypes

\* C1 as stated: a persist flagged as newly created, of an instance of a
\* registered class, delivers to every subscriber exactly one "create" event
\* whose payload has the identifier and data equal to the full whitelisted
\* attribute set read at that persist.
C1_CreateFullDataToAll ==
    [][\A a \in Addrs : SaveStep(a, TRUE) =>
          DeliveredToAll(last', _callbacks, heap[a].cls, "create",
                         [id |-> heap[a].pk, data |-> Whitelisted(a)])]_vars

\* C1 amended: such a persist delivers exactly one "create" event to every
\* subscriber in list order up to and including the first one that raises
\* (to all when none raises); the payload has the identifier, and data equal
\* to the full whitelisted attribute set when that set is not empty and no
\* data field when it is empty, whether or not a snapshot exists.
C1_CreateFullData ==
    [][\A a \in Addrs : SaveStep(a, TRUE) =>
          DeliveredUntilRaise(last', _callbacks, heap[a].cls, "create",
                              PayloadWith(heap[a].pk, Whitelisted(a)))]_vars

\* C1 witness: an instance observed at construction was persisted as new and
\* both subscribers got the create event with both attributes as data
C1_Witness ==
    /\ last.op = "post_save" /\ last.created /\ last.raised = ""
    /\ last.addr \in observed
    /\ Len(last.deliv) = 2
    /\ DOMAIN DataOf(last.deliv[2].payload) = {"status", "total"}

C3_RaisesIffNoSnapshot ==
    [][\A a \in Addrs : SaveStep(a, FALSE) =>
          /\ a \notin DOMAIN _snapshots => last'.raised = "KeyError"
          /\ a \in DOMAIN _snapshots =>
                /\ last'.raised # "KeyError"
                /\ Len(last'.published) = 1
                /\ last'.published[1].event = "update"]_vars

\* the current attributes of the instance at a all equal the snapshot's values
NothingChanged(a) ==
    /\ a \in DOMAIN _snapshots
    /\ \A k \in DOMAIN Whitelisted(a) :
          k \in DOMAIN _snapshots[a] /\ Whitelisted(a)[k] = _snapshots[a][k]

\* C4 as stated: a persist not flagged as created whose current attributes all
\* equal the stored snapshot's values delivers exactly one "update" event to
\* every subscriber, with the identifier and no data field.
C4_NoChangeUpdateToAll ==
    [][\A a \in Addrs : (SaveStep(a, FALSE) /\ NothingChanged(a)) =>
          DeliveredToAll(last', _callbacks, heap[a].cls, "update",
                         [id |-> heap[a].pk])]_vars

\* the step is post_delete_callback on the instance at a, of a registered class
DeleteStep(a) ==
    /\ last'.op = "post_delete"
    /\ last'.addr = a
    /\ heap[a].cls \in RegisteredTypes

\* C5 as stated: on-delete of an instance of a registered class delivers to
\* every subscriber one "delete" event with the identifier and no data field,
\* whatever happened to the instance before.
C5_DeleteToAll ==
    [][\A a \in Addrs : DeleteStep(a) =>
          DeliveredToAll(last', _callbacks, heap[a].cls, "delete",
                         [id |-> heap[a].pk])]_vars

\* C5 amended: it delivers one "delete" event with the identifier and no data
\* field to every subscriber in list order up to and including the first one
\* that raises (to all when none raises), whatever happened to the instance
\* before.
C5_Delete ==
    [][\A a \in Addrs : DeleteStep(a) =>
          DeliveredUntilRaise(last', _callbacks, heap[a].cls, "delete",
                              [id |-> heap[a].pk])]_vars

\* C5 witness: both subscribers got the delete event of an instance that was
\* never observed at construction, has no snapshot and has attributes
C5_Witness ==
    /\ last.op = "post_delete" /\ last.raised = ""
    /\ Len(last.deliv) = 2
    /\ last.addr \notin observed
    /\ last.addr \notin DOMAIN _snapshots
    /\ DOMAIN Whitelisted(last.addr) # {}

\* C6: for a class that is not registered, on-construct, on-persist and
\* on-delete invoke no subscriber, raise nothing and leave the snapshot
\* store, the registry and the subscriber list as they were.
C6_UnregisteredNoOp ==
    [][(/\ last'.op \in {"post_init", "post_save", "post_delete"}
        /\ last'.arg \notin RegisteredTypes) =>
          /\ last'.deliv = <<>>
          /\ last'.published = <<>>
          /\ last'.raised = ""
          /\ UNCHANGED <<_snapshots, _registered_models, _callbacks>>]_vars

\* C6 witness: a persist flagged as created, of an instance of a class that
\* is not registered, while another class is registered, a subscriber exists
\* and a snapshot is stored under the handle
C6_Witness ==
    /\ last.op = "post_save" /\ last.created
    /\ last.arg \notin RegisteredTypes
    /\ RegisteredTypes # {}
    /\ Len(_callbacks) >= 1
    /\ last.addr \in DOMAIN _snapshots

\* C7 as stated: when the host reclaims an instance whose snapshot was
\* captured by on-construct, the reclamation callback arranged there removes
\* the entry stored under its handle.
C7_ReclaimReleasesSnapshot ==
    [][(last'.op = "reclaim" /\ last'.addr \in observed) =>
          last'.addr \notin DOMAIN _snapshots']_vars

\* C8 as stated: a snapshot is stored under a handle exactly if the instance
\* there was observed by on-construct while its class was registered and has
\* not been reclaimed.
C8_SnapshotIffObservedAlive ==
    \A a \in Addrs : a \in DOMAIN _snapshots <=> a \in observed

\* C9 as stated: each publish invokes every callback of the subscriber list
\* once per list entry, in list order, all with the same class, event and
\* payload; add_callback appends and nothing else changes the list.
C9_EveryCallbackInOrder ==
    [][/\ last'.published # <<>> =>
             DeliveredToAll(last', _callbacks, last'.published[1].model_class,
                            last'.published[1].event,
                            last'.published[1].payload)
       /\ IF last'.op = "add_callback"
          THEN _callbacks' = Append(_callbacks, last'.arg)
          ELSE _callbacks' = _callbacks]_vars

\* C9 amended: each publish invokes the callbacks of the subscriber list once
\* per list entry, in list order, all with the same class, event and payload,
\* up to and including the first callback that raises (all of them when none
\* raises); a callback added n times is invoked n times per event that
\* reaches its entries; add_callback appends and nothing else changes the list.
C9_CallbacksInOrder ==
    [][/\ last'.published # <<>> =>
             DeliveredUntilRaise(last', _callbacks,
                                 last'.published[1].model_class,
                                 last'.published[1].event,
                                 last'.published[1].payload)
       /\ last'.published = <<>> => last'.deliv = <<>>
       /\ IF last'.op = "add_callback"
          THEN _callbacks' = Append(_callbacks, last'.arg)
          ELSE _callbacks' = _callbacks]_vars

\* C9 witness: two different callbacks were added, "c2" first, and one event
\* was delivered to "c2" and then to "c1"
C9_Witness ==
    /\ last.published # <<>> /\ last.raised = ""
    /\ Len(last.deliv) = 2
    /\ last.deliv[1].callback = "c2"
    /\ last.deliv[2].callback = "c1"

\* C10 as stated: when a subscriber raises during on-persist and the next
\* call is a successful on-persist of the same instance, no subscriber gets
\* an attribute change in both events, and a subscriber the failed call
\* never reached gets every change of the failed event in the second one.
C10_NoDropNoDouble ==
    [][(/\ last.op = "post_save" /\ last.raised = "CallbackError"
        /\ last'.op = "post_save" /\ last'.addr = last.addr
        /\ last'.raised = "") =>
          LET change == DataOf(last.published[1].payload)
          IN  \A i \in 1..Len(last'.deliv) :
                 LET now == DataOf(last'.deliv[i].payload)
                 IN  IF i <= Len(last.deliv)
                     THEN \A k \in DOMAIN change \cap DOMAIN now :
                             change[k] # now[k]
                     ELSE \A k \in DOMAIN change :
                             k \in DOMAIN now /\ now[k] = change[k]]_vars

\* C11 as stated: unregister of a class that is not registered raises
\* nothing and leaves the registry, the snapshot store and the subscriber
\* list as they were.
C11_UnregisterNonMemberNoOp ==
    [][(last'.op = "unregister" /\ last'.arg \notin RegisteredTypes) =>
          /\ last'.raised = ""
          /\ UNCHANGED <<_registered_models, _snapshots, _callbacks>>]_vars

\* C12 as stated: registration is set membership. After register(T) the
\* class T is registered, after unregister(T) it is not, however often it
\* was registered before, and no other call changes whether T is registered.
C12_RegistrationIsMembership ==
    [][\A T \in Types :
          IF last'.op = "register" /\ last'.arg = T
          THEN T \in RegisteredTypes'
          ELSE IF last'.op = "unregister" /\ last'.arg = T
          THEN T \notin RegisteredTypes'
          ELSE (T \in RegisteredTypes') <=> (T \in RegisteredTypes)]_vars

\* C13 as stated: every on-persist of a registered instance that publishes
\* a create or update event ends with the snapshot stored under the handle
\* equal to the attributes read in that call.
C13_SnapshotFollowsPublish ==
    [][\A a \in Addrs :
          (/\ last'.op = "post_save" /\ last'.addr = a
           /\ heap[a].cls \in RegisteredTypes
           /\ last'.published # <<>>) =>
             /\ a \in DOMAIN _snapshots'
             /\ _snapshots'[a] = Whitelisted(a)]_vars

\* C14: when a persist not flagged as created raises the missing-snapshot
\* error, no subscriber was invoked, nothing was published and the snapshot
\* store is as it was, so the same call made again raises the same error.
C14_MissingSnapshotLeavesNoTrace ==
    [][\A a \in Addrs :
          (SaveStep(a, FALSE) /\ last'.raised = "KeyError") =>
             /\ last'.deliv = <<>>
             /\ last'.published = <<>>
             /\ _snapshots' = _snapshots
             /\ \A r \in 0..Len(_callbacks') :
                   (post_save_callback(heap[a].cls, a, FALSE, r).out.raised)'
                      = "KeyError"]_vars

\* C14 witness: a persist of an instance that was never observed and has
\* attributes raised the error while a subscriber exists, and no snapshot
\* is stored under the handle
C14_Witness ==
    /\ last.op = "post_save" /\ ~last.created /\ last.raised = "KeyError"
    /\ last.arg \in RegisteredTypes
    /\ last.addr \notin observed
    /\ last.addr \notin DOMAIN _snapshots
    /\ DOMAIN Whitelisted(last.addr) # {}
    /\ Len(_callbacks) >= 1

\* C15: on-construct of an instance of a registered class stores under the
\* handle a snapshot equal to the instance's attributes restricted to the
\* fields of its class, whatever was stored there before, and invokes no
\* subscriber.
C15_ConstructCaptures ==
    [][\A a \in Addrs :
          (/\ last'.op = "post_init" /\ last'.addr = a
           /\ last'.arg \in RegisteredTypes) =>
             LET d == heap'[a].dict
             IN  /\ a \in DOMAIN _snapshots'
                 /\ _snapshots'[a] =
                       [k \in (DOMAIN d) \cap Fields(heap'[a].cls) |-> d[k]]
                 /\ last'.deliv = <<>>
                 /\ last'.published = <<>>]_vars

\* C15 witness: a Note was constructed with a "total" attribute, which is no
\* field of Note, while a subscriber exists; its snapshot has "status" alone
C15_Witness ==
    /\ last.op = "post_init" /\ last.arg = "Note"
    /\ last.arg \in RegisteredTypes
    /\ Len(_callbacks) >= 1
    /\ heap[last.addr].live
    /\ "total" \in DOMAIN heap[last.addr].dict
    /\ DOMAIN _snapshots[last.addr] = {"status"}

\* C16 as stated: the snapshot from which an on-persist computes the delta
\* of an update event was written from the instance being persisted, never
\* left behind by an earlier holder of the handle.
C16_BaselineFromSameInstance ==
    [][\A a \in Addrs :
          (SaveStep(a, FALSE) /\ last'.published # <<>>) => a \in own]_vars

\* C18: the destructor run for a handle raises nothing; with no snapshot
\* stored under the handle (never captured, or released before) it changes
\* nothing, and with one stored it removes the entry of that handle and leaves
\* every other entry as it was.
C18_ReleaseIdempotent ==
    [][\A a \in Handles :
          (last'.op = "destructor" /\ last'.addr = a) =>
             /\ last'.raised = ""
             /\ IF a \in DOMAIN _snapshots
                THEN /\ DOMAIN _snapshots' = DOMAIN _snapshots \ {a}
                     /\ \A b \in DOMAIN _snapshots' :
                           _snapshots'[b] = _snapshots[b]
                ELSE _snapshots' = _snapshots
             /\ UNCHANGED <<_registered_models, _callbacks>>]_vars

\* C18 witness: the destructor ran for a handle with no entry and deleted
\* nothing, while the two other handles have their entries
C18_Witness ==
    /\ last.op = "destructor" /\ last.arg = "" /\ last.raised = ""
    /\ DOMAIN _snapshots = Handles \ {last.addr}

\* the keys of current whose value differs from baseline's, with the value
\* current has
ExactDiff(current, baseline) ==
    [k \in {x \in DOMAIN current :
               x \notin DOMAIN baseline \/ current[x] # baseline[x]} |->
        current[k]]

C19_OverlayEqualsAttributes ==
    [][(/\ last'.op = "post_save"
        /\ book'.sourced
        /\ ~book'.overlap) =>
          book'.view = Whitelisted(last'.addr)]_vars

\* C19 witness: after a create event and serial persists, an update whose
\* data has "status" alone was applied and the subscriber holds both
\* attributes of the instance
C19_Witness ==
    /\ book.sourced /\ ~book.overlap
    /\ last.op = "post_save" /\ ~last.created /\ last.raised = ""
    /\ DOMAIN DataOf(last.published[1].payload) = {"status"}
    /\ DOMAIN book.view = {"status", "total"}
    /\ book.view = Whitelisted(last.addr)

\* C20 as stated: whatever the callbacks do with the payload they are
\* handed, an on-persist that raises nothing leaves under the handle a
\* snapshot equal to the instance's whitelisted attributes, and every
\* callback of an event is handed the same payload content.
C20_NoAliasing ==
    [][/\ \A a \in Addrs :
             (/\ last'.op = "post_save" /\ last'.addr = a
              /\ heap[a].cls \in RegisteredTypes
              /\ last'.raised = "") =>
                /\ a \in DOMAIN _snapshots'
                /\ _snapshots'[a] = Whitelisted(a)
       /\ \A i, j \in 1..Len(last'.deliv) :
             last'.deliv[i].payload = last'.deliv[j].payload]_vars

====
